---- MODULE Spec2Model ----
(***************************************************************************)
(* Model of category/mpt/node.hpp: the node record of the generic Merkle   *)
(* Patricia Trie, its page-count encoding, its size arithmetic, its        *)
(* (de)serialization, its copy, its child slots and its child iteration.   *)
(***************************************************************************)
EXTENDS Integers, Sequences, FiniteSets, TLC

VARIABLES
    pages,      \* node_disk_pages_spare_15(unsigned pages): the argument
    spare,      \* the encoder's outcome: [st, count, shift]
    it,         \* NodeChildrenRange and its iterator: [st, range_mask, mask_, index_]
    yielded,    \* the pairs operator* returned before each operator++
    hdr,        \* a NodeBase seen through its header fields and data_offset array
    sz,         \* the sizes taken of hdr: [st, mem, disk, calc]
    heap,       \* the allocations: address -> the node's bytes (<<>> when free)
    root,       \* the address of the node N the operations are applied to
    owned,      \* the addresses held by an owning handle (Node::UniquePtr)
    buf,        \* the bytes serialize_node_to_buffer has written so far
    ser,        \* the serialize_node_to_buffer calls so far: [calls, first]
    dres,       \* the last deserialize_node_from_buffer call and its outcome
    cpy,        \* the last copy_node call: [node, of, wrote]
    installed,  \* per slot of N, the child set_next installed and move_next has not taken
    last,       \* the last set_next / move_next call on N: [op, slot, ptr, was]
    dsz         \* the sizes of a deserialize_node_from_buffer call: what it read,
                \* the outcome of its assertions, the 32-bit sizes it computed

pageVars == <<pages, spare>>
iterVars == <<it, yielded>>
sizeVars == <<hdr, sz>>
nodeVars == <<heap, root, owned, buf, ser, dres, cpy, installed, last>>
frameVars == <<dsz>>
vars == <<pages, spare, it, yielded, hdr, sz, heap, root, owned, buf, ser, dres, cpy,
          installed, last, dsz>>

\* the values of the variables a specification does not use
NoSpare == [st |-> "none", count |-> 0, shift |-> 0]
NoIter == [st |-> "none", range_mask |-> 0, mask_ |-> 0, index_ |-> 0]
NoHdr ==
    [mask |-> 0, has_value |-> FALSE, path_nibble_index_start |-> 0,
     path_nibble_index_end |-> 0, value_len |-> 0, data_len |-> 0,
     child_off |-> <<>>]
NoSz == [st |-> "none", mem |-> 0, disk |-> 0, calc |-> 0]
NoSer == [calls |-> 0, first |-> 0]
NoDres == [st |-> "none", node |-> 0, src |-> <<>>, max_bytes |-> 0]
NoCpy == [node |-> 0, of |-> <<>>, wrote |-> FALSE]
NoLast == [op |-> "none", slot |-> 0, ptr |-> 0, was |-> 0]
NoFrame ==
    [st |-> "none", disk_size |-> 0, max_bytes |-> 0, mask |-> 0,
     copy |-> [hi |-> 0, lo |-> 0], alloc |-> [hi |-> 0, lo |-> 0]]

\* the number of addresses of the heap
MaxNodes == 4
Addr == 1 .. MaxNodes

PagesIdle == pages = 0 /\ spare = NoSpare
IterIdle == it = NoIter /\ yielded = <<>>
SizeIdle == hdr = NoHdr /\ sz = NoSz
NodeIdle ==
    /\ heap = [a \in Addr |-> <<>>]
    /\ root = 0
    /\ owned = {}
    /\ buf = <<>>
    /\ ser = NoSer
    /\ dres = NoDres
    /\ cpy = NoCpy
    /\ installed = <<>>
    /\ last = NoLast
FrameIdle == dsz = NoFrame

(***************************************************************************)
(* Integer helpers for the C++ bit operations.                             *)
(***************************************************************************)
Pow2(n) == 2 ^ n

Min(a, b) == IF a <= b THEN a ELSE b

\* x >> k on an unsigned value
ShiftR(x, k) == x \div Pow2(k)

\* x & ((1 << k) - 1): the k low bits of x
LowBits(x, k) == x % Pow2(k)

\* std::bit_width
RECURSIVE bit_width(_)
bit_width(x) == IF x = 0 THEN 0 ELSE 1 + bit_width(x \div 2)

\* std::countl_zero on a 32-bit unsigned
countl_zero(x) == 32 - bit_width(x)

\* std::popcount
RECURSIVE popcount(_)
popcount(x) == IF x = 0 THEN 0 ELSE (x % 2) + popcount(x \div 2)

\* __builtin_ctzl for a non-zero argument
RECURSIVE ctz(_)
ctz(x) == IF x % 2 = 1 THEN 0 ELSE 1 + ctz(x \div 2)

\* a & b, bit by bit, on non-negative values
RECURSIVE BitAnd(_, _)
BitAnd(a, b) ==
    IF a = 0 \/ b = 0 THEN 0
    ELSE (a % 2) * (b % 2) + 2 * BitAnd(a \div 2, b \div 2)

(***************************************************************************)
(* NodeBase: constants, header fields and the layout of the regions that   *)
(* follow the 16-byte header.                                              *)
(***************************************************************************)
SizeofNode == 16
SizeofPtr == 8
SizeofChunkOffset == 8
SizeofCompactOffset == 5
KECCAK256_SIZE == 32
max_number_of_children == 16
max_data_len == 63
disk_size_bytes == 4
max_disk_size == 256 * 1024 * 1024
max_size == max_disk_size + max_number_of_children * KECCAK256_SIZE

number_of_children(h) == popcount(h.mask)

\* 0 without a path, else ceil(end / 2) - floor(start / 2)
path_bytes(h) ==
    IF h.path_nibble_index_end = 0 THEN 0
    ELSE (h.path_nibble_index_end + 1) \div 2 - h.path_nibble_index_start \div 2

path_nibbles_len(h) == h.path_nibble_index_end - h.path_nibble_index_start

has_path(h) == path_nibbles_len(h) > 0

\* the data_offset array holds, per child, the end of its bytes in child_data
child_data_offset(h, index) == IF index = 0 THEN 0 ELSE h.child_off[index]

child_data_len(h, index) ==
    child_data_offset(h, index + 1) - child_data_offset(h, index)

RECURSIVE total_child_data_len(_, _)
total_child_data_len(h, n) ==
    IF n = 0 THEN 0
    ELSE total_child_data_len(h, n - 1) + child_data_len(h, n - 1)

\* offsets of the regions from the start of the node
fnext_off == SizeofNode
child_min_offset_fast_off(h) ==
    fnext_off + SizeofChunkOffset * number_of_children(h)
child_min_offset_slow_off(h) ==
    child_min_offset_fast_off(h) + SizeofCompactOffset * number_of_children(h)
child_min_version_off(h) ==
    child_min_offset_slow_off(h) + SizeofCompactOffset * number_of_children(h)
child_off_off(h) == child_min_version_off(h) + 8 * number_of_children(h)
path_off(h) == child_off_off(h) + 2 * number_of_children(h)
value_off(h) == path_off(h) + path_bytes(h)
data_off(h) == value_off(h) + h.value_len
child_data_off(h) == data_off(h) + h.data_len
next_off(h) == child_data_off(h) + child_data_offset(h, number_of_children(h))

\* node size in memory: up to the end of the next[] array
get_mem_size(h) == next_off(h) + SizeofPtr * number_of_children(h)

\* node size on disk: the 32-bit size prefix and the node up to next[]
get_disk_size(h) == next_off(h) + disk_size_bytes

calculate_node_size_no_data(n, total_child_data_size, value_size, path_size, data_size) ==
    SizeofNode
        + (2 + SizeofCompactOffset * 2 + 8 + SizeofChunkOffset + SizeofPtr)
            * n
        + total_child_data_size + value_size + path_size

\* sizeof(Node) + (the six per-child entries) * number_of_children + the rest
calculate_node_size(n, total_child_data_size, value_size, path_size, data_size) ==
    SizeofNode
        + (2 + SizeofCompactOffset * 2 + 8 + SizeofChunkOffset + SizeofPtr)
            * n
        + total_child_data_size + value_size + path_size + data_size

MAX_VALUE_LEN_OF_LEAF_of_max_size ==
    max_size - calculate_node_size(0, 0, 0, KECCAK256_SIZE, KECCAK256_SIZE)

\* Node::max_disk_size less the node around a value: header, path and data
MAX_VALUE_LEN_OF_LEAF ==
    max_disk_size - calculate_node_size(0, 0, 0, KECCAK256_SIZE, KECCAK256_SIZE)

deserialize_alloc_size_with_prefix(disk_size, mask) ==
    disk_size + popcount(mask) * SizeofPtr

\* static_cast<uint32_t>(disk_size + number_of_children * sizeof(NodeType *)
\*                       - NodeBase::disk_size_bytes), where it does not wrap
deserialize_alloc_size(disk_size, mask) ==
    disk_size + popcount(mask) * SizeofPtr - disk_size_bytes

(***************************************************************************)
(* Nodes as the constructors build them: header fields from the arguments, *)
(* the data_offset array as the prefix sums of the children's data lengths.*)
(***************************************************************************)
RECURSIVE SumTo(_, _)
SumTo(lens, k) == IF k = 0 THEN 0 ELSE SumTo(lens, k - 1) + lens[k]

MakeHdr(mask, has_value, value_len, pstart, pend, data_len, lens) ==
    [mask |-> mask, has_value |-> has_value,
     path_nibble_index_start |-> pstart, path_nibble_index_end |-> pend,
     value_len |-> value_len, data_len |-> data_len,
     child_off |-> [k \in 1 .. popcount(mask) |-> SumTo(lens, k)]]

\* bounds of the nodes drawn
MaxValueLen == 2
MaxPathEnd == 3
MaxDataLen == 1
MaxChildDataLen == 2

SizeMasks == {0, 1, 256, 3, 33025, 255, 65535}

\* child data lengths: all equal, or cycling through 0 .. MaxChildDataLen
ChildLens(mask, base, step) ==
    [k \in 1 .. popcount(mask) |-> (base + step * k) % (MaxChildDataLen + 1)]

SmallHdrs(masks) ==
    { MakeHdr(m, hv, vl, ps, pe, dl, ChildLens(m, base, step)) :
        m \in masks, hv \in BOOLEAN, vl \in 0 .. MaxValueLen,
        ps \in 0 .. 1, pe \in 0 .. MaxPathEnd, dl \in 0 .. MaxDataLen,
        base \in 0 .. MaxChildDataLen, step \in 0 .. 1 }

\* the nodes laid out byte by byte: the extremes of each length
ByteMasks == {0, 256, 3}

ByteHdrs ==
    { MakeHdr(m, hv, vl, ps, pe, dl, ChildLens(m, base, 1)) :
        m \in ByteMasks, hv \in BOOLEAN, vl \in {0, MaxValueLen},
        ps \in 0 .. 1, pe \in {0, MaxPathEnd}, dl \in {0, MaxDataLen},
        base \in {0, MaxChildDataLen} }

\* the invariants of a node: no value bytes without a value, a path that ends
\* after its start, cached data only on a node with a value or children
ValidHdr(h) ==
    /\ (~h.has_value => h.value_len = 0)
    /\ h.path_nibble_index_start <= h.path_nibble_index_end
    /\ (h.path_nibble_index_end = 0 => h.path_nibble_index_start = 0)
    /\ h.data_len <= max_data_len
    /\ (h.data_len > 0 => (h.has_value \/ h.mask # 0))
    /\ h.value_len <= MAX_VALUE_LEN_OF_LEAF

\* S1: a leaf with a 4-nibble path and the 5-byte value "hello"
S1 == MakeHdr(0, TRUE, 5, 0, 4, 0, <<>>)
\* S2: an extension with one child at branch 8 and a 32-byte child data blob
S2 == MakeHdr(256, FALSE, 0, 1, 2, 0, <<32>>)
\* S3: a branch with an empty value, 32 bytes of data and two 32-byte blobs
S3 == MakeHdr(3, TRUE, 0, 0, 0, 32, <<32, 32>>)
\* S6: a leaf with the largest value and a 64-nibble path
S6 == MakeHdr(0, TRUE, MAX_VALUE_LEN_OF_LEAF, 0, 2 * KECCAK256_SIZE, 0, <<>>)

SizeHdrs == { h \in SmallHdrs(SizeMasks) : ValidHdr(h) } \cup {S1, S2, S3, S6}

\* the sizes of the node: get_mem_size, get_disk_size and calculate_node_size
\* of its parts
MeasureNode ==
    /\ sz.st = "none"
    /\ hdr # NoHdr
    /\ sz' = [st |-> "done",
              mem |-> get_mem_size(hdr),
              disk |-> get_disk_size(hdr),
              calc |-> calculate_node_size(
                          number_of_children(hdr),
                          total_child_data_len(hdr, number_of_children(hdr)),
                          hdr.value_len, path_bytes(hdr), hdr.data_len)]
    /\ UNCHANGED <<frameVars, pageVars, iterVars, hdr, nodeVars>>

InitSize ==
    /\ hdr \in SizeHdrs
    /\ sz = NoSz
    /\ PagesIdle /\ IterIdle /\ NodeIdle /\ FrameIdle

NextSize == MeasureNode

SpecSize == InitSize /\ [][NextSize]_vars

\* C3: calculate_node_size(popcount(mask), sum of child_data_len(i), value_len,
\* path_bytes(), data_len) equals get_mem_size(), and is 16 + 36 * n plus the
\* child data, value, path and data bytes.
C3_SizeIdentity ==
    sz.st = "done" =>
        /\ sz.calc = sz.mem
        /\ sz.calc = 16 + (2 + 5 + 5 + 8 + 8 + 8) * popcount(hdr.mask)
                        + total_child_data_len(hdr, popcount(hdr.mask))
                        + hdr.value_len + path_bytes(hdr) + hdr.data_len

\* S3 measured: 16 + 36 * 2 + 64 + 0 + 0 + 32 bytes
C3_Witness == sz.st = "done" /\ hdr = S3 /\ sz.calc = 184 /\ sz.mem = 184

count_bits == 10
max_count == Pow2(10) - 1
max_shift == Pow2(5) - 1

\* the page counts the encoder is applied to: [0, 2^20)
PageLimit == Pow2(20)

\* unsigned const exp = pages >> count_bits
spare_exp(p) == ShiftR(p, count_bits)

\* digits - countl_zero(exp)
spare_shift0(p) == 32 - countl_zero(spare_exp(p))

spare_count0_rounds_down(p) == ShiftR(p, spare_shift0(p))

\* (pages >> shift) + (0 != (pages & ((1u << shift) - 1)))
spare_count0(p) ==
    ShiftR(p, spare_shift0(p))
        + (IF LowBits(p, spare_shift0(p)) # 0 THEN 1 ELSE 0)

\* static_cast<unsigned>(value.spare.count) << value.spare.shift
to_pages(s) == s.count * Pow2(s.shift)

\* the constructor: the three MONAD_ASSERTs abort, otherwise the value is built
spare_ctor(p) ==
    LET s0 == spare_shift0(p)
        c0 == spare_count0(p)
        c == IF c0 > max_count THEN ShiftR(c0, 1) ELSE c0
        s == IF c0 > max_count THEN s0 + 1 ELSE s0
        v == [count |-> LowBits(c, 10), shift |-> LowBits(s, 5)]
    IN  IF c > max_count THEN [st |-> "abort_count", count |-> 0, shift |-> 0]
        ELSE IF s > max_shift THEN [st |-> "abort_shift", count |-> 0, shift |-> 0]
        ELSE IF to_pages(v) < p
             THEN [st |-> "abort_pages", count |-> v.count, shift |-> v.shift]
        ELSE [st |-> "ok", count |-> v.count, shift |-> v.shift]

EncodePages ==
    /\ spare.st = "none"
    /\ pages < PageLimit
    /\ spare' = spare_ctor(pages)
    /\ UNCHANGED <<frameVars, pages, iterVars, sizeVars, nodeVars>>

InitPages ==
    /\ pages \in 0 .. (PageLimit - 1)
    /\ spare = NoSpare
    /\ IterIdle /\ SizeIdle /\ NodeIdle /\ FrameIdle

NextPages == EncodePages

SpecPages == InitPages /\ [][NextPages]_vars

\* C4: for every page count P in [0, 2^20) the constructor fires none of its
\* assertions and P <= to_pages() < 2*P + 1024.
C4_PageEncoding ==
    spare.st # "none" =>
        /\ spare.st = "ok"
        /\ spare.count <= 1023
        /\ spare.shift <= 31
        /\ pages <= to_pages(spare)
        /\ to_pages(spare) < 2 * pages + 1024

\* a page count whose encoding needed the round-up and the halving step
C4_Witness ==
    /\ spare.st = "ok"
    /\ pages = 2047
    /\ spare.count = 512
    /\ spare.shift = 2

(***************************************************************************)
(* NodeChildrenRange and NodeBase::to_child_index                          *)
(***************************************************************************)
\* bit b of the 16-bit mask m
BitSet(m, b) == (m \div Pow2(b)) % 2 = 1

\* popcount(mask & ((1u << branch) - 1))
to_child_index(mask, branch) == popcount(BitAnd(mask, Pow2(branch) - 1))

\* iterator::operator*: {index_, __builtin_ctzl(mask_)}
iter_deref(i) == <<i.index_, ctz(i.mask_)>>

iter_incr_keeps_index(i) ==
    [i EXCEPT !.mask_ = BitAnd(i.mask_, i.mask_ - 1)]

\* iterator::operator++: mask_ &= mask_ - 1; ++index_ (a uint8_t)
iter_incr(i) ==
    [i EXCEPT !.mask_ = BitAnd(i.mask_, i.mask_ - 1),
              !.index_ = (i.index_ + 1) % 256]

\* iterator::operator!=(Sentinel)
iter_not_end(i) == i.mask_ # 0

\* NodeChildrenRange::begin(): iterator(mask_) with index_ 0
RangeBegin ==
    /\ it.st = "range"
    /\ it' = [it EXCEPT !.st = "iter", !.mask_ = it.range_mask, !.index_ = 0]
    /\ UNCHANGED <<frameVars, pageVars, yielded, sizeVars, nodeVars>>

\* one turn of  for (auto const [index, branch] : NodeChildrenRange(mask))
RangeStep ==
    /\ it.st = "iter"
    /\ iter_not_end(it)
    /\ yielded' = Append(yielded, iter_deref(it))
    /\ it' = iter_incr(it)
    /\ UNCHANGED <<frameVars, pageVars, sizeVars, nodeVars>>

InitIter ==
    /\ it \in [st : {"range"}, range_mask : 0 .. 65535, mask_ : {0}, index_ : {0}]
    /\ yielded = <<>>
    /\ PagesIdle /\ SizeIdle /\ NodeIdle /\ FrameIdle

NextIter == RangeBegin \/ RangeStep

SpecIter == InitIter /\ [][NextIter]_vars

\* C6: iterating NodeChildrenRange(mask) until the iterator equals the sentinel
\* takes exactly popcount(mask) increments and yields (i, b_i) with b_i the
\* set bits of mask in ascending order, i = to_child_index(b_i)
\* = popcount(mask & ((1 << b_i) - 1)).
C6_BranchMap ==
    it.st = "iter" =>
        /\ Len(yielded) = it.index_
        /\ Len(yielded) <= popcount(it.range_mask)
        /\ \A k \in 1 .. Len(yielded) :
              /\ yielded[k][1] = k - 1
              /\ yielded[k][2] \in 0 .. 15
              /\ BitSet(it.range_mask, yielded[k][2])
              /\ to_child_index(it.range_mask, yielded[k][2]) = k - 1
              /\ popcount(it.range_mask % Pow2(yielded[k][2])) = k - 1
        /\ ~iter_not_end(it) => Len(yielded) = popcount(it.range_mask)

\* the iteration over mask 0x8101 has ended after yielding (0,0), (1,8), (2,15)
C6_Witness ==
    /\ it.st = "iter"
    /\ it.range_mask = 33025
    /\ ~iter_not_end(it)
    /\ yielded = << <<0, 0>>, <<1, 8>>, <<2, 15>> >>

(***************************************************************************)
(* Nodes as bytes: little-endian fields, the header read back from the     *)
(* bytes, and the bytes a constructor lays out for given header fields.    *)
(***************************************************************************)
\* the bytes of x, little-endian (the values stored are below 2^31)
LE(x, nbytes) ==
    [j \in 1 .. nbytes |-> IF j <= 4 THEN (x \div (256 ^ (j - 1))) % 256 ELSE 0]

\* the byte at 1-based position k of m; outside the allocation it is junk
At(m, k) == IF k \in 1 .. Len(m) THEN m[k] ELSE 205

\* unaligned_load of an nbytes-wide little-endian field at byte offset off
unaligned_load(m, off, nbytes) ==
    IF nbytes = 2 THEN At(m, off + 1) + 256 * At(m, off + 2)
    ELSE At(m, off + 1) + 256 * At(m, off + 2) + 65536 * At(m, off + 3)
            + 16777216 * At(m, off + 4)

\* the header fields and the data_offset array of the node stored in m
HdrOf(m) ==
    LET mask == unaligned_load(m, 0, 2)
        bitpacked == At(m, 3)
        arr == child_off_off([mask |-> mask])
    IN  [mask |-> mask,
         has_value |-> bitpacked % 2 = 1,
         path_nibble_index_start |-> (bitpacked \div 2) % 2,
         path_nibble_index_end |-> At(m, 4),
         value_len |-> unaligned_load(m, 4, 4),
         data_len |-> bitpacked \div 4,
         child_off |-> [k \in 1 .. popcount(mask) |->
                          unaligned_load(m, arr + 2 * (k - 1), 2)]]

\* next(index): the pointer in slot index of next[]
next(m, index) == unaligned_load(m, next_off(HdrOf(m)) + SizeofPtr * index, 4)

\* the version every node of the model is given
NodeVersion == 7

\* the 16 header bytes: mask, bitpacked, path_nibble_index_end, value_len, version
HeaderBytes(h) ==
    LE(h.mask, 2)
        \o << (IF h.has_value THEN 1 ELSE 0) + 2 * h.path_nibble_index_start
                + 4 * h.data_len,
              h.path_nibble_index_end >>
        \o LE(h.value_len, 4) \o LE(NodeVersion, 8)

\* a node with header fields h, as a constructor leaves it: the data_offset
\* array filled in, the other regions holding the bytes given (here a pattern
\* of the position) and next[] holding the pointers nexts
NodeBytes(h, nexts) ==
    [k \in 1 .. get_mem_size(h) |->
        IF k <= SizeofNode THEN HeaderBytes(h)[k]
        ELSE IF k > child_off_off(h) /\ k <= path_off(h)
            THEN LE(h.child_off[(k - child_off_off(h) - 1) \div 2 + 1], 2)
                    [((k - child_off_off(h) - 1) % 2) + 1]
        ELSE IF k > next_off(h)
            THEN LE(nexts[(k - next_off(h) - 1) \div SizeofPtr + 1], SizeofPtr)
                    [((k - next_off(h) - 1) % SizeofPtr) + 1]
        ELSE (1 + 7 * k) % 256]

NullNexts(h) == [i \in 1 .. number_of_children(h) |-> 0]

\* Node::make(bytes): an allocation of that size whose header the NodeBase
\* default member initializers zero and whose other bytes are what the
\* allocator returned
make(bytes, junk) ==
    SubSeq([k \in 1 .. bytes |-> IF k <= SizeofNode THEN 0 ELSE junk], 1, bytes)

\* what fresh memory may hold
Junk == {0, 205}

\* std::copy_n(from, n, to): the first n bytes of to replaced by those of from
copy_n(from, n, to) ==
    SubSeq([k \in 1 .. n |-> At(from, k)], 1, Min(n, Len(to)))
        \o SubSeq(to, n + 1, Len(to))

memset_next_skipped(m) == m

\* std::memset(node->next_data(), 0, number_of_children * sizeof(NodeType *))
memset_next(m) ==
    LET h == HdrOf(m)
        first == next_off(h)
        n == SizeofPtr * number_of_children(h)
    IN  SubSeq(m, 1, first)
            \o SubSeq([k \in 1 .. n |-> 0], 1, Min(n, Len(m) - first))
            \o SubSeq(m, first + n + 1, Len(m))

\* the lowest free address
FreshAddr == CHOOSE a \in Addr : heap[a] = <<>> /\ \A b \in Addr : heap[b] = <<>> => a <= b

(***************************************************************************)
(* serialize_node_to_buffer and deserialize_node_from_buffer               *)
(***************************************************************************)
serialize_node_to_buffer_body_at_offset(bytes_to_write, node, disk_size, offset) ==
    LET prefix == LE(disk_size, disk_size_bytes)
        np == IF offset < disk_size_bytes
              THEN Min(bytes_to_write, disk_size_bytes - offset) ELSE 0
    IN  [k \in 1 .. bytes_to_write |->
            IF k <= np THEN prefix[offset + k] ELSE At(node, offset + k - np)]

\* the bytes_to_write bytes written at logical byte offset of the on-disk
\* form: what is left of the 32-bit disk_size prefix, then the node's bytes
\* from where the earlier calls stopped
serialize_node_to_buffer(bytes_to_write, node, disk_size, offset) ==
    LET prefix == LE(disk_size, disk_size_bytes)
        np == IF offset < disk_size_bytes
              THEN Min(bytes_to_write, disk_size_bytes - offset) ELSE 0
        from == IF offset < disk_size_bytes THEN 0 ELSE offset - disk_size_bytes
    IN  [k \in 1 .. bytes_to_write |->
            IF k <= np THEN prefix[offset + k] ELSE At(node, from + k - np)]

\* the node N and what one call with offset 0 and n_bytes = disk_size writes
RootHdr == HdrOf(heap[root])
RootDiskSize == get_disk_size(RootHdr)
WholeBuffer == serialize_node_to_buffer(RootDiskSize, heap[root], RootDiskSize, 0)

\* the longest segment tried besides the one that writes all that is left
MaxChunk == 5
ChunkSizes(left) == { n \in 1 .. left : n <= MaxChunk \/ n = left }

\* one call: the segment follows the bytes written so far
SerializeChunk ==
    /\ root # 0
    /\ dres.st = "none" /\ cpy.node = 0 /\ last.op = "none"
    /\ LET disk_size == get_disk_size(HdrOf(heap[root]))
           offset == Len(buf)
       IN  /\ offset < disk_size
           /\ \E n \in ChunkSizes(disk_size - offset) :
                /\ buf' = buf \o serialize_node_to_buffer(
                                    n, heap[root], disk_size, offset)
                /\ ser' = [calls |-> Min(ser.calls + 1, 3),
                           first |-> IF offset = 0 THEN n ELSE ser.first]
    /\ UNCHANGED <<frameVars, pageVars, iterVars, sizeVars, heap, root, owned, dres, cpy, installed, last>>

deserialize_frame_no_zero_check(disk_size, max_bytes) ==
    IF ~(disk_size <= max_bytes) THEN "abort_max_bytes"
    ELSE IF ~(disk_size <= max_disk_size) THEN "abort_disk_size"
    ELSE "ok"

\* MONAD_ASSERT_PRINTF(disk_size <= max_bytes, ...);
\* MONAD_ASSERT(disk_size > 0 && disk_size <= NodeBase::max_disk_size)
deserialize_frame(disk_size, max_bytes) ==
    IF ~(disk_size <= max_bytes) THEN "abort_max_bytes"
    ELSE IF ~(disk_size > 0 /\ disk_size <= max_disk_size) THEN "abort_disk_size"
    ELSE "ok"

\* the builds: MONAD_DEBUG_ASSERT is compiled in only in a debug build
Builds == {"debug", "release"}

\* deserialize_node_from_buffer<NodeType>(read_pos, max_bytes): [st, bytes]
deserialize_node_from_buffer(src, max_bytes, junk, build) ==
    LET disk_size == unaligned_load(src, 0, 4)
        frame == deserialize_frame(disk_size, max_bytes)
        read_pos == SubSeq(src, disk_size_bytes + 1, Len(src))
        mask == unaligned_load(read_pos, 0, 2)
        alloc_size == deserialize_alloc_size(disk_size, mask)
        node0 == make(alloc_size, junk)
        node1 == copy_n(read_pos, disk_size - disk_size_bytes, node0)
        node2 == memset_next(node1)
    IN  IF frame # "ok" THEN [st |-> frame, bytes |-> <<>>]
        ELSE IF alloc_size < 0
            \* alloc_size wraps to above max_size: make's debug assertion, or an
            \* allocation and a copy of about 2^32 bytes
            THEN [st |-> IF build = "debug" THEN "abort_make" ELSE "undefined",
                  bytes |-> <<>>]
        ELSE IF disk_size < disk_size_bytes \/ alloc_size < SizeofNode
            \* the length of the copy wraps, or the allocation does not hold a
            \* header: reads and writes outside the buffers
            THEN [st |-> "undefined", bytes |-> <<>>]
        ELSE IF build = "debug" /\ alloc_size > max_size
            THEN [st |-> "abort_make", bytes |-> <<>>]
        ELSE IF disk_size > Len(src) \/ get_mem_size(HdrOf(node1)) > alloc_size
            THEN [st |-> "undefined", bytes |-> <<>>]
        ELSE IF alloc_size # get_mem_size(HdrOf(node2))
            THEN [st |-> "abort_alloc_size", bytes |-> <<>>]
        ELSE [st |-> "ok", bytes |-> node2]

\* the size prefixes a buffer handed to deserialize may carry: the one written,
\* zero, one below the prefix's own width, one above max_disk_size
PrefixChoices(d) == {d, 0, disk_size_bytes - 1, max_disk_size + 1}
MaxBytesChoices(d) == {d - 1, d, d + 1, 2 * max_disk_size}

\* deserialize the buffer the node was written to, its prefix as written or
\* replaced
Deserialize ==
    /\ root # 0
    /\ dres.st = "none"
    /\ Len(buf) = get_disk_size(HdrOf(heap[root]))
    /\ \E p \in PrefixChoices(Len(buf)), mb \in MaxBytesChoices(Len(buf)),
          junk \in Junk, build \in Builds :
          LET src == LE(p, disk_size_bytes) \o SubSeq(buf, disk_size_bytes + 1, Len(buf))
              r == deserialize_node_from_buffer(src, mb, junk, build)
          IN  /\ dres' = [st |-> r.st,
                          node |-> IF r.st = "ok" THEN FreshAddr ELSE 0,
                          src |-> src, max_bytes |-> mb]
              /\ heap' = IF r.st = "ok" THEN [heap EXCEPT ![FreshAddr] = r.bytes]
                         ELSE heap
              /\ owned' = IF r.st = "ok" THEN owned \cup {FreshAddr} ELSE owned
    /\ UNCHANGED <<frameVars, pageVars, iterVars, sizeVars, root, buf, ser, cpy, installed, last>>

InitSer ==
    /\ \E h \in { x \in ByteHdrs : ValidHdr(x) } :
          heap = [a \in Addr |-> IF a = 1 THEN NodeBytes(h, NullNexts(h)) ELSE <<>>]
    /\ root = 1
    /\ owned = {1}
    /\ buf = <<>>
    /\ ser = NoSer
    /\ dres = NoDres
    /\ cpy = NoCpy
    /\ installed = NullNexts(RootHdr)
    /\ last = NoLast
    /\ PagesIdle /\ IterIdle /\ SizeIdle /\ FrameIdle

NextSer == SerializeChunk \/ Deserialize

SpecSer == InitSer /\ [][NextSer]_vars

\* all the bytes of next[] of the node stored in m are zero
NextAllZero(m) ==
    \A k \in (next_off(HdrOf(m)) + 1) .. Len(m) : m[k] = 0

C8_Framing ==
    (root # 0 /\ dres.st # "none") =>
        LET disk_size == unaligned_load(dres.src, 0, 4)
            mask == unaligned_load(dres.src, 4, 2)
        IN  /\ (disk_size = 0 \/ disk_size > dres.max_bytes
                    \/ disk_size > max_disk_size) =>
                  /\ dres.st \in {"abort_max_bytes", "abort_disk_size"}
                  /\ dres.node = 0
                  /\ \A a \in Addr \ {root} : heap[a] = <<>>
            /\ (/\ 0 < disk_size
                /\ disk_size <= Min(dres.max_bytes, max_disk_size)
                /\ dres.src = buf) =>
                  /\ dres.st = "ok"
                  /\ dres.node \in Addr \ {root}
                  /\ Len(heap[dres.node]) = disk_size + 8 * popcount(mask) - 4
                  /\ \A k \in 1 .. (disk_size - 4) :
                        heap[dres.node][k] = dres.src[4 + k]
                  /\ \A k \in (disk_size - 4 + 1) .. Len(heap[dres.node]) :
                        heap[dres.node][k] = 0

\* a prefix of 0 aborted; the witness of the success case is C1's
C8_Witness ==
    /\ root # 0
    /\ dres.st = "abort_disk_size"
    /\ unaligned_load(dres.src, 0, 4) = 0
    /\ dres.max_bytes = Len(buf)
    /\ RootHdr.mask = 256

U32(x) ==
    IF x >= 0 THEN [hi |-> x \div 65536, lo |-> x % 65536]
    ELSE LET w == (2147483647 + x) + 1
         IN  [hi |-> 32768 + w \div 65536, lo |-> w % 65536]

\* u <= n and u >= n for a uint32_t u and 0 <= n < 2^31
U32Le(u, n) == u.hi < 32768 /\ u.hi * 65536 + u.lo <= n
U32Ge(u, n) == u.hi >= 32768 \/ u.hi * 65536 + u.lo >= n

\* disk_size - NodeBase::disk_size_bytes, the length std::copy_n is given
deserialize_copy_count(disk_size) == U32(disk_size - disk_size_bytes)

\* alloc_size, after static_cast<uint32_t>
deserialize_alloc_size_u32(disk_size, mask) ==
    U32(deserialize_alloc_size(disk_size, mask))

\* NodeType::make(alloc_size): MONAD_DEBUG_ASSERT(bytes <= Node::max_size)
make_assert(bytes, build) ==
    IF build = "debug" /\ ~U32Le(bytes, max_size) THEN "abort_make" ELSE "made"

\* the prefixes read: the small ones and those around max_disk_size
MaxFrameSize == 24
FrameSizes ==
    (0 .. MaxFrameSize) \cup {max_disk_size - 1, max_disk_size, max_disk_size + 1}

\* the two assertions on disk_size, then the sizes computed from it
FrameSizesStep ==
    /\ dsz.st = "read"
    /\ LET st == deserialize_frame(dsz.disk_size, dsz.max_bytes)
       IN  dsz' =
             IF st # "ok" THEN [dsz EXCEPT !.st = st]
             ELSE [dsz EXCEPT
                     !.st = "ok",
                     !.copy = deserialize_copy_count(dsz.disk_size),
                     !.alloc = deserialize_alloc_size_u32(dsz.disk_size, dsz.mask)]
    /\ UNCHANGED <<pageVars, iterVars, sizeVars, nodeVars>>

\* the allocation of alloc_size bytes
FrameMake ==
    /\ dsz.st = "ok"
    /\ \E build \in Builds :
          dsz' = [dsz EXCEPT !.st = make_assert(dsz.alloc, build)]
    /\ UNCHANGED <<pageVars, iterVars, sizeVars, nodeVars>>

InitFrame ==
    /\ \E d \in FrameSizes, m \in SizeMasks :
          \E mb \in { x \in MaxBytesChoices(d) : x >= 0 } :
             dsz = [NoFrame EXCEPT !.st = "read", !.disk_size = d,
                                     !.max_bytes = mb, !.mask = m]
    /\ PagesIdle /\ IterIdle /\ SizeIdle /\ NodeIdle

NextFrame == FrameSizesStep \/ FrameMake

SpecFrame == InitFrame /\ [][NextFrame]_vars

\* the call went past both assertions on disk_size
FramePassed == dsz.st \in {"ok", "made", "abort_make"}

\* C11: whenever (disk_size, max_bytes, mask) passes both framing assertions,
\* the 32-bit sizes computed next do not wrap and cover the header: the copied
\* byte count disk_size - 4 is at least 16 and the allocation size
\* disk_size + 8 * popcount(mask) - 4 is at most max_size.
C11_NoWrap_Original ==
    FramePassed =>
        /\ dsz.disk_size - disk_size_bytes >= 0
        /\ U32Ge(dsz.copy, SizeofNode) /\ U32Le(dsz.copy, max_disk_size)
        /\ deserialize_alloc_size(dsz.disk_size, dsz.mask) >= 0
        /\ U32Le(dsz.alloc, max_size)

(***************************************************************************)
(* copy_node, Node::set_next and Node::move_next                           *)
(***************************************************************************)
copy_node_keeps_next(node, junk) ==
    LET alloc_size == get_mem_size(HdrOf(node))
    IN  copy_n(node, alloc_size, make(alloc_size, junk))

\* copy_node<NodeType>(node): a fresh node of get_mem_size() bytes holding the
\* bytes of node, its next[] zeroed
copy_node(node, junk) ==
    LET alloc_size == get_mem_size(HdrOf(node))
        node_copy == make(alloc_size, junk)
    IN  memset_next(copy_n(node, alloc_size, node_copy))

\* NodeBase::set_next(index, ptr): the pointer is stored in slot index
set_next(m, index, ptr) ==
    LET first == next_off(HdrOf(m)) + SizeofPtr * index
    IN  SubSeq(m, 1, first) \o LE(ptr, SizeofPtr)
            \o SubSeq(m, first + SizeofPtr + 1, Len(m))

\* NodeBase::move_next(index): the pointer of slot index, the slot set to null
move_next(m, index) == [ptr |-> next(m, index), node |-> set_next(m, index, 0)]

\* the pointers in next[] of the node stored in m
Slots(m) == [i \in 1 .. number_of_children(HdrOf(m)) |-> next(m, i - 1)]

\* Node::set_next(index, p): p.release() goes into the slot; p is a handle the
\* caller owns, or a null handle
SetNext ==
    /\ root # 0
    /\ \E index \in 0 .. (number_of_children(RootHdr) - 1),
          p \in (owned \ {root, cpy.node}) \cup {0} :
          /\ heap' = [heap EXCEPT ![root] = set_next(@, index, p)]
          /\ owned' = owned \ {p}
          /\ installed' = [installed EXCEPT ![index + 1] = p]
          /\ last' = [op |-> "set_next", slot |-> index, ptr |-> p,
                      was |-> installed[index + 1]]
    /\ UNCHANGED <<frameVars, pageVars, iterVars, sizeVars, root, buf, ser, dres, cpy>>

\* Node::move_next(index): the handle returned owns what the slot held
MoveNext ==
    /\ root # 0
    /\ \E index \in 0 .. (number_of_children(RootHdr) - 1) :
          LET r == move_next(heap[root], index)
          IN  /\ heap' = [heap EXCEPT ![root] = r.node]
              /\ owned' = IF r.ptr # 0 THEN owned \cup {r.ptr} ELSE owned
              /\ installed' = [installed EXCEPT ![index + 1] = 0]
              /\ last' = [op |-> "move_next", slot |-> index, ptr |-> r.ptr,
                          was |-> installed[index + 1]]
    /\ UNCHANGED <<frameVars, pageVars, iterVars, sizeVars, root, buf, ser, dres, cpy>>

\* copy_node<Node>(N): the copy is a new allocation its caller owns
CopyNode ==
    /\ root # 0
    /\ cpy.node = 0
    /\ \E junk \in Junk :
          /\ heap' = [heap EXCEPT ![FreshAddr] = copy_node(heap[root], junk)]
          /\ cpy' = [node |-> FreshAddr, of |-> heap[root], wrote |-> FALSE]
          /\ owned' = owned \cup {FreshAddr}
    /\ UNCHANGED <<frameVars, pageVars, iterVars, sizeVars, root, buf, ser, dres, installed, last>>

\* payload bytes of the node stored in m: the first fnext byte, the first path
\* byte, the last byte in front of next[]
PayloadPositions(m) ==
    LET h == HdrOf(m)
    IN  { k \in {fnext_off + 1, path_off(h) + 1, next_off(h)} :
            k > SizeofNode /\ k <= next_off(h) }

\* a write to one payload byte of the copy
WriteCopy ==
    /\ cpy.node # 0
    /\ ~cpy.wrote
    /\ \E k \in PayloadPositions(heap[cpy.node]) :
          heap' = [heap EXCEPT ![cpy.node][k] = (@ + 1) % 256]
    /\ cpy' = [cpy EXCEPT !.wrote = TRUE]
    /\ UNCHANGED <<frameVars, pageVars, iterVars, sizeVars, root, owned, buf, ser, dres, installed, last>>

\* the parents, and the leaf every child is
OwnHdrs ==
    { h \in ByteHdrs :
        /\ ValidHdr(h) /\ h.mask # 0
        /\ h.has_value /\ h.value_len > 0
        /\ h.path_nibble_index_start = 1 /\ has_path(h) }
LeafHdr == MakeHdr(0, TRUE, 1, 0, 0, 0, <<>>)
Kids == 2 .. (MaxNodes - 1)

InitOwn ==
    /\ \E h \in OwnHdrs :
          heap = [a \in Addr |->
                    IF a = 1 THEN NodeBytes(h, NullNexts(h))
                    ELSE IF a \in Kids THEN NodeBytes(LeafHdr, <<>>)
                    ELSE <<>>]
    /\ root = 1
    /\ owned = {1} \cup Kids
    /\ buf = <<>>
    /\ ser = NoSer
    /\ dres = NoDres
    /\ cpy = NoCpy
    /\ installed = NullNexts(RootHdr)
    /\ last = NoLast
    /\ PagesIdle /\ IterIdle /\ SizeIdle /\ FrameIdle

NextOwn == SetNext \/ MoveNext \/ CopyNode \/ WriteCopy

SpecOwn == InitOwn /\ [][NextOwn]_vars

\* the allocated nodes, and the owners of a node: owning handles and slots
Live(a) == heap[a] # <<>>

SlotsHolding(c) ==
    { pi \in Addr \X (0 .. (max_number_of_children - 1)) :
        /\ Live(pi[1])
        /\ pi[2] < number_of_children(HdrOf(heap[pi[1]]))
        /\ next(heap[pi[1]], pi[2]) = c }

Owners(c) == (IF c \in owned THEN 1 ELSE 0) + Cardinality(SlotsHolding(c))

\* a step that is a set_next or move_next call on N
SlotStep == last' # last \/ heap'[root] # heap[root]

CopyStep == cpy' # cpy

\* C7: copy_node(N) returns a distinct node of the same get_mem_size() whose
\* bytes are those of N outside next[] and whose next[] is null, whatever the
\* slots of N hold; N, its slots and its children are left as they were by the
\* copy and by a later write to the copy's payload.
C7_CopyIsolation ==
    /\ [](cpy.node # 0 =>
            /\ cpy.node # root
            /\ Len(heap[cpy.node]) = get_mem_size(HdrOf(cpy.of))
            /\ get_mem_size(HdrOf(heap[cpy.node])) = get_mem_size(HdrOf(cpy.of))
            /\ NextAllZero(heap[cpy.node])
            /\ (~cpy.wrote =>
                    \A k \in 1 .. next_off(HdrOf(cpy.of)) :
                        heap[cpy.node][k] = cpy.of[k]))
    /\ [][CopyStep =>
            /\ (cpy.node = 0 => cpy'.of = heap[root])
            /\ \A a \in Addr \ {cpy'.node} : heap'[a] = heap[a]
            /\ owned' \ {cpy'.node} = owned \ {cpy'.node}]_vars

\* a node with a child in one slot and none in the other was copied, and the
\* copy's payload written to
C7_Witness ==
    /\ cpy.node # 0 /\ cpy.wrote
    /\ HdrOf(cpy.of).mask = 3
    /\ Slots(cpy.of) = <<2, 0>>
    /\ Slots(heap[cpy.node]) = <<0, 0>>
    /\ heap[root] = cpy.of
    /\ heap[cpy.node] # cpy.of

====
